---- MODULE Spec2Model ----
(***************************************************************************)
(* Task orchestration of the chroma-key backend (src/index.ts): the sqlite *)
(* table `tasks`, the artifact files, the in-memory taskQueue and          *)
(* currentProcessing counter, the processVideo pipeline, the /upload       *)
(* handler and the start-up scan handleInterruptedTasks.                   *)
(*                                                                         *)
(* JavaScript scheduling: a handler or continuation runs to its next       *)
(* await without interleaving.  A continuation of a settled promise is a   *)
(* microtask; all microtasks run before the event loop delivers the next   *)
(* I/O event (an HTTP request, an ffmpeg 'end'/'error' event, the end of a *)
(* file write).  The process may be killed between any two steps.          *)
(***************************************************************************)
EXTENDS Integers, Sequences, FiniteSets, TLC

\* ------------------------------------------------------------------ bounds
MaxTasks == 2      \* uuids generated over the whole history
MaxCrashes == 2    \* process kills followed by a restart

\* --------------------------------------------------------- program constants
MAX_CONCURRENT_TASKS == 1
MAX_SIZE == 50 * 1024 * 1024

Ids == 1..MaxTasks
NULL == <<>>
Sizes == {MAX_SIZE - 1, MAX_SIZE, MAX_SIZE + 1}

VARIABLES
    tasks,              \* rows of the sqlite table tasks (durable)
    files,              \* paths that exist under the processing root (durable)
    taskQueue,          \* VideoTask[]
    currentProcessing,  \* number
    pv,                 \* per task id: the position of its processVideo call
    microtasks,         \* task ids whose promise continuation is ready to run
    writing,            \* task ids whose /upload handler awaits Bun.write
    interruptedTasks,   \* handleInterruptedTasks: the rows its query returned
    scanIdx,            \* handleInterruptedTasks: rows updated so far
    scanPc,             \* handleInterruptedTasks: "awaiting" or "done"
    nextId,             \* uuidv4: ids generated so far
    crashes,            \* kills so far
    lastStatus,         \* HTTP status of the /upload response sent in this step, or 0
    lastReq,            \* the /upload request received in this step, if any
    statusReply,        \* the GET /status response sent in this step, if any
    returned,           \* history: how often each taskId was returned by /upload
    enqueued,           \* history: task ids in addToQueue order, this run
    dispatched,         \* history: task ids in dequeue order, this run
    outcome,            \* history: how each task's pipeline ended
    finished,           \* history: jobs whose worker released its slot
    scanRuns,           \* history: finished scans since the last submission (max 2)
    snap,               \* history: tasks and files when the first of them finished
    orphans,            \* history: ids of the rows 'processing' when the process started
    workerWrites        \* history: updates of each task's row by processVideo, this run

vars == <<tasks, files, taskQueue, currentProcessing, pv, microtasks, writing,
          interruptedTasks, scanIdx, scanPc, nextId, crashes, lastStatus,
          returned, enqueued, dispatched, outcome, finished, scanRuns, snap,
          orphans, lastReq, statusReply, workerWrites>>

\* ------------------------------------------------------------------- paths
\* `${uploadDir}/${taskId}.mp4`
uploadPath(id) == <<"uploads", id, "mp4">>
\* `${outputDir}/${taskId}.webm`
outputPathOf(id) == <<"output", id, "webm">>
\* path.join(__dirname, `frames-${taskId}`)
frameDirectoryOf(id) == <<"frames", id, "dir">>
\* path.basename: the file name without its directory
basename(p) == <<p[2], p[3]>>
\* `/download/${path.basename(outputPath)}`
downloadLinkMut(filePath, outputPath) == <<"download">> \o basename(filePath)
downloadLinkOf(filePath, outputPath) == <<"download">> \o basename(outputPath)

\* ------------------------------------------------------------ the table tasks
Row(id, st, link) == [taskId |-> id, status |-> st, downloadLink |-> link]
RowsOf(t, id) == {r \in t : r.taskId = id}
StatusOf(t, id) == (CHOOSE r \in RowsOf(t, id) : TRUE).status

\* INSERT ... VALUES (id,'processing',NULL) ON CONFLICT(taskId) DO UPDATE SET ...
insertOrUpdateTaskMut(t, id) == t
insertOrUpdateTask(t, id) ==
    {r \in t : r.taskId # id} \cup {Row(id, "processing", NULL)}

\* UPDATE tasks SET status='completed', downloadLink=? WHERE taskId=?
updateTaskMut(t, id, link) ==
    {IF r.taskId = id THEN Row(id, "completed", r.downloadLink) ELSE r : r \in t}
updateTask(t, id, link) ==
    {IF r.taskId = id THEN Row(id, "completed", link) ELSE r : r \in t}

\* UPDATE tasks SET status='error', downloadLink=NULL WHERE taskId=?
updateTaskErrorMut(t, id) == {Row(r.taskId, "error", NULL) : r \in t}
updateTaskError(t, id) ==
    {IF r.taskId = id THEN Row(id, "error", NULL) ELSE r : r \in t}

\* UPDATE tasks SET status='failed' WHERE taskId=?
updateTaskStatusMut(t, id) ==
    {IF r.taskId = id THEN Row(id, "error", r.downloadLink) ELSE r : r \in t}
updateTaskStatusAllMut(t, id) == {Row(r.taskId, "failed", r.downloadLink) : r \in t}
updateTaskStatus(t, id) ==
    {IF r.taskId = id THEN Row(id, "failed", r.downloadLink) ELSE r : r \in t}

\* SELECT taskId FROM tasks WHERE status = 'processing'
interruptedTasksQueryMut(t) == {r.taskId : r \in t}
interruptedTasksQuery(t) == {r.taskId : r \in {x \in t : x.status = "processing"}}

\* The orders in which a query without ORDER BY may return a set of rows.
Orders(S) ==
    {s \in [1..Cardinality(S) -> S] : \A i, j \in 1..Cardinality(S) : s[i] = s[j] => i = j}

\* ------------------------------------------------------------- cleanupFiles
\* unlink the upload if it exists; empty and remove the frame directory if it exists
cleanupFilesMut(f, filePath, frameDirectory) == f \ {filePath}
cleanupFiles(f, filePath, frameDirectory) == f \ {filePath, frameDirectory}

\* cleanupFiles when fs.unlinkSync / fs.rmdirSync throws: at "unlink" the upload
\* exists and its unlink throws, nothing is deleted; at "frames" the upload (if
\* any) is deleted and emptying or removing the existing frame directory throws.
cleanupCanThrow(f, filePath, frameDirectory, at) ==
    IF at = "unlink" THEN filePath \in f ELSE frameDirectory \in f
cleanupFilesThrown(f, filePath, frameDirectory, at) ==
    IF at = "unlink" THEN f ELSE f \ {filePath}
ThrowPoints == {"unlink", "frames"}

\* ----------------------------------------------------------- processVideo
Idle == [pc |-> "idle", filePath |-> NULL, outputPath |-> NULL, res |-> "none",
         message |-> FALSE]
InFlightPcs == {"extracting", "sampling", "analyzed", "transforming", "settled",
                "stuck"}
\* jobs dequeued by processQueue whose processVideo call has not returned
InFlight == {id \in Ids : pv[id].pc \in InFlightPcs}
\* the event loop delivers an I/O event only when no continuation is ready; the
\* scan awaits only values that are no promises, so its continuations are ready
\* until it ends
EventLoopIdleMut == microtasks = <<>>
EventLoopIdle == scanPc = "done" /\ microtasks = <<>>

\* processQueue's test (line 192)
canProcessMut(cp, q) == cp <= MAX_CONCURRENT_TASKS /\ Len(q) > 0
canProcess(cp, q) == cp < MAX_CONCURRENT_TASKS /\ Len(q) > 0

\* processQueue up to its await: with cp, q, p, f the counter, queue, pipeline
\* positions and files its caller leaves.  Taking the head job starts
\* processVideo -> analyzeVideo -> extractFrames, which makes the frame directory
\* and starts ffmpeg.
processQueue(cp, q, p, f) ==
    IF canProcess(cp, q)
    THEN LET nextTask == Head(q) IN
         /\ currentProcessing' = cp + 1
         /\ taskQueue' = Tail(q)
         /\ pv' = [p EXCEPT ![nextTask.taskId] =
                      [pc |-> "extracting", filePath |-> nextTask.filePath,
                       outputPath |-> nextTask.outputPath, res |-> "none",
                       message |-> FALSE]]
         /\ files' = f \cup {frameDirectoryOf(nextTask.taskId)}
         /\ dispatched' = Append(dispatched, nextTask.taskId)
    ELSE /\ currentProcessing' = cp
         /\ taskQueue' = q
         /\ pv' = p
         /\ files' = f
         /\ dispatched' = dispatched

NoReq == [present |-> FALSE, video |-> FALSE, size |-> 0]
NoReply == [taskId |-> 0, code |-> 0, status |-> "none", downloadLink |-> NULL]

Init ==
    /\ tasks = {}
    /\ files = {}
    /\ taskQueue = <<>>
    /\ currentProcessing = 0
    /\ pv = [id \in Ids |-> Idle]
    /\ microtasks = <<>>
    /\ writing = {}
    /\ interruptedTasks = <<>>
    /\ scanIdx = 0
    /\ scanPc = "awaiting"
    /\ nextId = 0
    /\ crashes = 0
    /\ lastStatus = 0
    /\ returned = [id \in Ids |-> 0]
    /\ enqueued = <<>>
    /\ dispatched = <<>>
    /\ outcome = [id \in Ids |-> "none"]
    /\ finished = {}
    /\ scanRuns = 0
    /\ snap = [tasks |-> {}, files |-> {}]
    /\ orphans = {}
    /\ lastReq = NoReq
    /\ statusReply = NoReply
    /\ workerWrites = [id \in Ids |-> 0]

\* ------------------------------------------------------------ POST /upload
\* addToQueue (lines 212-218) on the files f its caller leaves
addToQueueMut(taskId, filePath, outputPath, f) ==
    /\ tasks' = insertOrUpdateTask(tasks, taskId)
    /\ enqueued' = Append(enqueued, taskId)
    /\ taskQueue' = Append(taskQueue, [taskId |-> taskId, filePath |-> filePath,
                                       outputPath |-> outputPath])
    /\ files' = f
    /\ UNCHANGED <<currentProcessing, pv, dispatched>>
addToQueue(taskId, filePath, outputPath, f) ==
    /\ tasks' = insertOrUpdateTask(tasks, taskId)
    /\ enqueued' = Append(enqueued, taskId)
    /\ processQueue(currentProcessing,
                    Append(taskQueue, [taskId |-> taskId, filePath |-> filePath,
                                       outputPath |-> outputPath]),
                    pv, f)

\* f.size > MAX_SIZE (line 266)
tooLargeMut(size) == size >= MAX_SIZE
tooLarge(size) == size > MAX_SIZE

\* The handler up to `await Bun.write` (lines 253-279): 400 without the video
\* field, 413 above MAX_SIZE, else a fresh uuid and the write is started.
Upload(hasVideo, size) ==
    /\ EventLoopIdle
    /\ lastReq' = [present |-> TRUE, video |-> hasVideo,
                   size |-> IF hasVideo THEN size ELSE 0]
    /\ IF ~hasVideo
       THEN /\ lastStatus' = 400
            /\ UNCHANGED <<writing, nextId, scanRuns, snap>>
       ELSE IF tooLarge(size)
       THEN /\ lastStatus' = 413
            /\ UNCHANGED <<writing, nextId, scanRuns, snap>>
       ELSE /\ nextId < MaxTasks
            /\ nextId' = nextId + 1
            /\ writing' = writing \cup {nextId + 1}
            /\ scanRuns' = 0
            /\ snap' = [tasks |-> {}, files |-> {}]
            /\ lastStatus' = 0
    /\ UNCHANGED <<tasks, files, taskQueue, currentProcessing, pv, microtasks,
                   interruptedTasks, scanIdx, scanPc, crashes, returned, enqueued,
                   dispatched, outcome, finished, orphans>>
    /\ statusReply' = NoReply
    /\ UNCHANGED workerWrites

\* Bun.write resolved: addToQueue, then return { taskId } (lines 280-281)
UploadWritten(taskId) ==
    /\ EventLoopIdle
    /\ taskId \in writing
    /\ writing' = writing \ {taskId}
    /\ addToQueue(taskId, uploadPath(taskId), outputPathOf(taskId),
                  files \cup {uploadPath(taskId)})
    /\ returned' = [returned EXCEPT ![taskId] = @ + 1]
    /\ lastStatus' = 200 /\ lastReq' = NoReq
    /\ UNCHANGED <<microtasks, interruptedTasks, scanIdx, scanPc, nextId, crashes,
                   outcome, finished, scanRuns, snap, orphans>>
    /\ statusReply' = NoReply
    /\ UNCHANGED workerWrites

\* Bun.write rejected: the catch answers 500 (lines 283-286); the file may be
\* there in part.
UploadWriteFailed(taskId, partial) ==
    /\ EventLoopIdle
    /\ taskId \in writing
    /\ writing' = writing \ {taskId}
    /\ files' = IF partial THEN files \cup {uploadPath(taskId)} ELSE files
    /\ lastStatus' = 500 /\ lastReq' = NoReq
    /\ UNCHANGED <<tasks, taskQueue, currentProcessing, pv, microtasks,
                   interruptedTasks, scanIdx, scanPc, nextId, crashes, returned,
                   enqueued, dispatched, outcome, finished, scanRuns, snap, orphans>>
    /\ statusReply' = NoReply
    /\ UNCHANGED workerWrites

\* ------------------------------------------------------- GET /status
\* getTaskInfo (lines 317-337): the row's status and downloadLink, or undefined
getTaskInfo(t, id) ==
    IF RowsOf(t, id) = {}
    THEN [taskId |-> id, code |-> 404, status |-> "none", downloadLink |-> NULL]
    ELSE LET taskRow == CHOOSE r \in RowsOf(t, id) : TRUE IN
         [taskId |-> id, code |-> 200, status |-> taskRow.status,
          downloadLink |-> taskRow.downloadLink]

\* The handler (lines 339-346): the query runs at once; only promise
\* continuations separate it from the response.
GetStatus(taskId) ==
    /\ EventLoopIdle
    /\ statusReply' = getTaskInfo(tasks, taskId)
    /\ UNCHANGED <<tasks, files, taskQueue, currentProcessing, pv, microtasks,
                   writing, interruptedTasks, scanIdx, scanPc, nextId, crashes,
                   returned, enqueued, dispatched, outcome,
                   finished, scanRuns, snap, orphans>>
    /\ lastStatus' = 0 /\ lastReq' = NoReq
    /\ UNCHANGED workerWrites

\* ------------------------------------------------- the processing pipeline
Settle(id, pc, res, message) ==
    /\ pv' = [pv EXCEPT ![id].pc = pc, ![id].res = res, ![id].message = message]
    /\ microtasks' = Append(microtasks, id)

\* extractFrames: ffmpeg 'error' -> reject; analyzeVideo's catch returns null
ExtractFramesError(id) ==
    /\ EventLoopIdle
    /\ pv[id].pc = "extracting"
    /\ Settle(id, "analyzed", "null", FALSE)
    /\ UNCHANGED <<tasks, files, taskQueue, currentProcessing, writing,
                   interruptedTasks, scanIdx, scanPc, nextId, crashes, returned, enqueued, dispatched, outcome, finished, scanRuns, snap, orphans>>
    /\ statusReply' = NoReply
    /\ lastStatus' = 0 /\ lastReq' = NoReq
    /\ UNCHANGED workerWrites

\* extractFrames: ffmpeg 'end' -> resolve; analyzeVideo reads the directory and
\* awaits findMostCommonColor per frame; without a frame the reduce of the empty
\* key list throws and the catch returns null (lines 109-125)
ExtractFramesEnd(id, hasFrames) ==
    /\ EventLoopIdle
    /\ pv[id].pc = "extracting"
    /\ IF hasFrames
       THEN /\ pv' = [pv EXCEPT ![id].pc = "sampling"]
            /\ UNCHANGED microtasks
       ELSE Settle(id, "analyzed", "null", FALSE)
    /\ UNCHANGED <<tasks, files, taskQueue, currentProcessing, writing,
                   interruptedTasks, scanIdx, scanPc, nextId, crashes, returned, enqueued, dispatched, outcome, finished, scanRuns, snap, orphans>>
    /\ statusReply' = NoReply
    /\ lastStatus' = 0 /\ lastReq' = NoReq
    /\ UNCHANGED workerWrites

\* the last findMostCommonColor settled: a colour was counted, or every frame
\* was unreadable and the reduce throws (lines 112-125)
SampleDone(id, found) ==
    /\ EventLoopIdle
    /\ pv[id].pc = "sampling"
    /\ Settle(id, "analyzed", IF found THEN "colour" ELSE "null", FALSE)
    /\ UNCHANGED <<tasks, files, taskQueue, currentProcessing, writing,
                   interruptedTasks, scanIdx, scanPc, nextId, crashes, returned, enqueued, dispatched, outcome, finished, scanRuns, snap, orphans>>
    /\ statusReply' = NoReply
    /\ lastStatus' = 0 /\ lastReq' = NoReq
    /\ UNCHANGED workerWrites

\* chromaKeyVideo: ffmpeg 'end' (lines 24-28): the output is written, cleanupFiles, resolve
TransformEnd(id) ==
    /\ EventLoopIdle
    /\ pv[id].pc = "transforming"
    /\ files' = cleanupFiles(files \cup {pv[id].outputPath}, pv[id].filePath,
                             frameDirectoryOf(id))
    /\ Settle(id, "settled", "resolved", FALSE)
    /\ UNCHANGED <<tasks, taskQueue, currentProcessing, writing,
                   interruptedTasks, scanIdx, scanPc, nextId, crashes, returned, enqueued, dispatched, outcome, finished, scanRuns, snap, orphans>>
    /\ statusReply' = NoReply
    /\ lastStatus' = 0 /\ lastReq' = NoReq
    /\ UNCHANGED workerWrites

\* chromaKeyVideo: ffmpeg 'error' (lines 29-33): cleanupFiles, reject(err); err is
\* the engine's value, with or without a non-empty message; the output may be
\* there in part
TransformError(id, message, partial) ==
    /\ EventLoopIdle
    /\ pv[id].pc = "transforming"
    /\ files' = cleanupFiles(IF partial THEN files \cup {pv[id].outputPath} ELSE files,
                             pv[id].filePath, frameDirectoryOf(id))
    /\ Settle(id, "settled", "rejected", message)
    /\ UNCHANGED <<tasks, taskQueue, currentProcessing, writing,
                   interruptedTasks, scanIdx, scanPc, nextId, crashes, returned, enqueued, dispatched, outcome, finished, scanRuns, snap, orphans>>
    /\ statusReply' = NoReply
    /\ lastStatus' = 0 /\ lastReq' = NoReq
    /\ UNCHANGED workerWrites

\* processVideo's catch (lines 169-176): the row is updated only if error.message
catchError(t, id, message) == IF message THEN updateTaskError(t, id) ELSE t

\* processVideo resumed after `await analyzeVideo` (lines 161-176)
PvAnalyzed(id) ==
    /\ scanPc = "done"
    /\ microtasks # <<>> /\ Head(microtasks) = id
    /\ pv[id].pc = "analyzed"
    /\ IF pv[id].res = "colour"
       THEN \* chromaKeyVideo starts ffmpeg and is awaited
            /\ pv' = [pv EXCEPT ![id].pc = "transforming", ![id].res = "none"]
            /\ microtasks' = Tail(microtasks)
            /\ UNCHANGED <<tasks, outcome, workerWrites>>
       ELSE \* throw new Error('Chroma key analysis failed'), caught at once
            /\ tasks' = catchError(tasks, id, TRUE)
            /\ pv' = [pv EXCEPT ![id].pc = "returned", ![id].res = "none"]
            /\ outcome' = [outcome EXCEPT ![id] = "analysisFailed"]
            /\ workerWrites' = [workerWrites EXCEPT ![id] = @ + 1]
            /\ microtasks' = Append(Tail(microtasks), id)
    /\ UNCHANGED <<files, taskQueue, currentProcessing, writing,
                   interruptedTasks, scanIdx, scanPc, nextId, crashes, returned, enqueued, dispatched, finished, scanRuns, snap, orphans>>
    /\ statusReply' = NoReply
    /\ lastStatus' = 0 /\ lastReq' = NoReq

\* processVideo resumed after `await chromaKeyVideo` (lines 162-176)
PvTransformed(id) ==
    /\ scanPc = "done"
    /\ microtasks # <<>> /\ Head(microtasks) = id
    /\ pv[id].pc = "settled"
    /\ IF pv[id].res = "resolved"
       THEN /\ tasks' = updateTask(tasks, id,
                                   downloadLinkOf(pv[id].filePath, pv[id].outputPath))
            /\ outcome' = [outcome EXCEPT ![id] = "success"]
            /\ workerWrites' = [workerWrites EXCEPT ![id] = @ + 1]
       ELSE /\ tasks' = catchError(tasks, id, pv[id].message)
            /\ outcome' = [outcome EXCEPT ![id] = "encodeFailed"]
            /\ workerWrites' = [workerWrites EXCEPT ![id] =
                                    IF pv[id].message THEN @ + 1 ELSE @]
    /\ pv' = [pv EXCEPT ![id].pc = "returned", ![id].res = "none",
                        ![id].message = FALSE]
    /\ microtasks' = Append(Tail(microtasks), id)
    /\ UNCHANGED <<files, taskQueue, currentProcessing, writing,
                   interruptedTasks, scanIdx, scanPc, nextId, crashes, returned, enqueued, dispatched, finished, scanRuns, snap, orphans>>
    /\ statusReply' = NoReply
    /\ lastStatus' = 0 /\ lastReq' = NoReq

\* processQueue resumed after `await processVideo`: its finally (lines 205-208)
FinallyMut(id) ==
    /\ scanPc = "done"
    /\ microtasks # <<>> /\ Head(microtasks) = id
    /\ pv[id].pc = "returned"
    /\ microtasks' = Tail(microtasks)
    /\ finished' = finished \cup {id}
    /\ currentProcessing' = currentProcessing - 1
    /\ pv' = [pv EXCEPT ![id] = Idle]
    /\ UNCHANGED <<tasks, files, taskQueue, dispatched, writing, interruptedTasks,
                   scanIdx, scanPc, nextId, crashes, returned, enqueued, outcome,
                   scanRuns, snap, orphans, workerWrites>>
    /\ statusReply' = NoReply
    /\ lastStatus' = 0 /\ lastReq' = NoReq
Finally(id) ==
    /\ scanPc = "done"
    /\ microtasks # <<>> /\ Head(microtasks) = id
    /\ pv[id].pc = "returned"
    /\ microtasks' = Tail(microtasks)
    /\ finished' = finished \cup {id}
    /\ processQueue(currentProcessing - 1, taskQueue, [pv EXCEPT ![id] = Idle], files)
    /\ UNCHANGED <<tasks, writing, interruptedTasks, scanIdx, scanPc, nextId,
                   crashes, returned, enqueued, outcome, scanRuns, snap, orphans>>
    /\ statusReply' = NoReply
    /\ lastStatus' = 0 /\ lastReq' = NoReq
    /\ UNCHANGED workerWrites

\* ------------------------------------------------- handleInterruptedTasks
\* the for loop's test
scanHasNextMut(idx, rows) == idx + 1 < Len(rows)
scanHasNext(idx, rows) == idx < Len(rows)

\* One continuation of handleInterruptedTasks (lines 363-374): cleanupFiles for
\* the row whose update was awaited, then the next row's update and its await,
\* or the end of the loop.
ScanStep ==
    /\ scanPc = "awaiting"
    /\ files' = IF scanIdx > 0
                THEN cleanupFiles(files, uploadPath(interruptedTasks[scanIdx]),
                                  frameDirectoryOf(interruptedTasks[scanIdx]))
                ELSE files
    /\ IF scanHasNext(scanIdx, interruptedTasks)
       THEN /\ tasks' = updateTaskStatus(tasks, interruptedTasks[scanIdx + 1])
            /\ scanIdx' = scanIdx + 1
            /\ UNCHANGED <<scanPc, scanRuns, snap>>
       ELSE /\ scanPc' = "done"
            /\ scanRuns' = IF scanRuns < 2 THEN scanRuns + 1 ELSE 2
            /\ snap' = IF scanRuns = 0 THEN [tasks |-> tasks, files |-> files'] ELSE snap
            /\ UNCHANGED <<tasks, scanIdx>>
    /\ UNCHANGED <<taskQueue, currentProcessing, pv, microtasks, writing,
                   interruptedTasks, nextId, crashes, returned, enqueued,
                   dispatched, outcome, finished, orphans>>
    /\ statusReply' = NoReply
    /\ lastStatus' = 0 /\ lastReq' = NoReq
    /\ UNCHANGED workerWrites

\* ------------------------------------------------------ kill and restart
\* The process is killed: memory is lost, the table and the files stay; files
\* being written may be there in part.  The module is evaluated again (lines
\* 152-392): handleInterruptedTasks runs its query and awaits.
CrashRestart ==
    /\ crashes < MaxCrashes
    /\ crashes' = crashes + 1
    /\ \E P \in SUBSET ({uploadPath(id) : id \in writing}
                        \cup {pv[id].outputPath : id \in {i \in Ids : pv[i].pc = "transforming"}}) :
          files' = files \cup P
    /\ taskQueue' = <<>>
    /\ currentProcessing' = 0
    /\ pv' = [id \in Ids |-> Idle]
    /\ microtasks' = <<>>
    /\ writing' = {}
    /\ \E order \in Orders(interruptedTasksQuery(tasks)) : interruptedTasks' = order
    /\ scanIdx' = 0
    /\ scanPc' = "awaiting"
    /\ lastStatus' = 0 /\ lastReq' = NoReq
    /\ enqueued' = <<>>
    /\ dispatched' = <<>>
    /\ orphans' = {r.taskId : r \in {x \in tasks : x.status = "processing"}}
    /\ UNCHANGED <<tasks, nextId, returned, outcome, finished, scanRuns, snap>>
    /\ statusReply' = NoReply
    /\ workerWrites' = [id \in Ids |-> 0]

Next ==
    \/ \E hasVideo \in BOOLEAN, size \in Sizes : Upload(hasVideo, size)
    \/ \E id \in Ids : UploadWritten(id)
    \/ \E id \in Ids : GetStatus(id)
    \/ \E id \in Ids, partial \in BOOLEAN : UploadWriteFailed(id, partial)
    \/ \E id \in Ids : ExtractFramesError(id)
    \/ \E id \in Ids, hasFrames \in BOOLEAN : ExtractFramesEnd(id, hasFrames)
    \/ \E id \in Ids, found \in BOOLEAN : SampleDone(id, found)
    \/ \E id \in Ids : TransformEnd(id)
    \/ \E id \in Ids, message \in BOOLEAN, partial \in BOOLEAN :
          TransformError(id, message, partial)
    \/ \E id \in Ids : PvAnalyzed(id)
    \/ \E id \in Ids : PvTransformed(id)
    \/ \E id \in Ids : Finally(id)
    \/ ScanStep
    \/ CrashRestart

Spec == Init /\ [][Next]_vars

\* ------------------------------------------- file deletion that throws
\* chromaKeyVideo's 'end' listener (lines 24-28) when cleanupFiles throws: the
\* exception leaves the listener before resolve(), so the promise awaited by
\* processVideo never settles (if the exception kills the process instead,
\* CrashRestart follows).
TransformEndCleanupThrows(id, at) ==
    /\ EventLoopIdle
    /\ pv[id].pc = "transforming"
    /\ cleanupCanThrow(files \cup {pv[id].outputPath}, pv[id].filePath,
                       frameDirectoryOf(id), at)
    /\ files' = cleanupFilesThrown(files \cup {pv[id].outputPath}, pv[id].filePath,
                                   frameDirectoryOf(id), at)
    /\ pv' = [pv EXCEPT ![id].pc = "stuck"]
    /\ outcome' = [outcome EXCEPT ![id] = "endCleanupThrew"]
    /\ lastStatus' = 0 /\ lastReq' = NoReq /\ statusReply' = NoReply
    /\ UNCHANGED <<tasks, taskQueue, currentProcessing, microtasks, writing,
                   interruptedTasks, scanIdx, scanPc, nextId, crashes, returned,
                   enqueued, dispatched, finished, scanRuns, snap, orphans>>
    /\ UNCHANGED workerWrites

\* chromaKeyVideo's 'error' listener (lines 29-33) when cleanupFiles throws:
\* reject(err) is not reached
TransformErrorCleanupThrows(id, at) ==
    /\ EventLoopIdle
    /\ pv[id].pc = "transforming"
    /\ cleanupCanThrow(files, pv[id].filePath, frameDirectoryOf(id), at)
    /\ files' = cleanupFilesThrown(files, pv[id].filePath, frameDirectoryOf(id), at)
    /\ pv' = [pv EXCEPT ![id].pc = "stuck"]
    /\ outcome' = [outcome EXCEPT ![id] = "errorCleanupThrew"]
    /\ lastStatus' = 0 /\ lastReq' = NoReq /\ statusReply' = NoReply
    /\ UNCHANGED <<tasks, taskQueue, currentProcessing, microtasks, writing,
                   interruptedTasks, scanIdx, scanPc, nextId, crashes, returned,
                   enqueued, dispatched, finished, scanRuns, snap, orphans>>
    /\ UNCHANGED workerWrites

\* handleInterruptedTasks when cleanupFiles throws for the row whose update was
\* awaited (line 372): the catch around the loop (lines 375-377) logs, and the
\* function ends without visiting the rows that follow.
ScanCleanupThrows(at) ==
    /\ scanPc = "awaiting"
    /\ scanIdx > 0
    /\ cleanupCanThrow(files, uploadPath(interruptedTasks[scanIdx]),
                       frameDirectoryOf(interruptedTasks[scanIdx]), at)
    /\ files' = cleanupFilesThrown(files, uploadPath(interruptedTasks[scanIdx]),
                                   frameDirectoryOf(interruptedTasks[scanIdx]), at)
    /\ scanPc' = "done"
    /\ scanRuns' = IF scanRuns < 2 THEN scanRuns + 1 ELSE 2
    /\ snap' = IF scanRuns = 0 THEN [tasks |-> tasks, files |-> files'] ELSE snap
    /\ lastStatus' = 0 /\ lastReq' = NoReq /\ statusReply' = NoReply
    /\ UNCHANGED <<tasks, taskQueue, currentProcessing, pv, microtasks, writing,
                   interruptedTasks, scanIdx, nextId, crashes, returned, enqueued,
                   dispatched, outcome, finished, orphans>>
    /\ UNCHANGED workerWrites

NextFault ==
    \/ Next
    \/ \E id \in Ids, at \in ThrowPoints : TransformEndCleanupThrows(id, at)
    \/ \E id \in Ids, at \in ThrowPoints : TransformErrorCleanupThrows(id, at)
    \/ \E at \in ThrowPoints : ScanCleanupThrows(at)

\* the program where file deletion may throw
SpecFault == Init /\ [][NextFault]_vars

\* --------------------------------------------- a run that is never interrupted
\* ffmpeg's 'end' or 'error' event of the job's current invocation, or the end
\* of its frame sampling (lines 24-33, 57-62, 109-111)
EngineEvent(id) ==
    \/ ExtractFramesError(id)
    \/ \E hasFrames \in BOOLEAN : ExtractFramesEnd(id, hasFrames)
    \/ \E found \in BOOLEAN : SampleDone(id, found)
    \/ TransformEnd(id)
    \/ \E message \in BOOLEAN, partial \in BOOLEAN : TransformError(id, message, partial)

\* the continuations of processVideo's and processQueue's awaits (lines 160-176,
\* 205-208)
Continuation(id) == PvAnalyzed(id) \/ PvTransformed(id) \/ Finally(id)

NextLive ==
    \/ \E hasVideo \in BOOLEAN, size \in Sizes : Upload(hasVideo, size)
    \/ \E id \in Ids : UploadWritten(id)
    \/ \E id \in Ids : GetStatus(id)
    \/ \E id \in Ids, partial \in BOOLEAN : UploadWriteFailed(id, partial)
    \/ \E id \in Ids : EngineEvent(id)
    \/ \E id \in Ids : Continuation(id)
    \/ ScanStep

\* every ready continuation runs, and every pipeline invocation ends
Fairness ==
    /\ WF_vars(ScanStep)
    /\ \A id \in Ids : WF_vars(Continuation(id))
    /\ \A id \in Ids : WF_vars(EngineEvent(id))

\* the program in a run where the process is not killed
SpecLive == Init /\ [][NextLive]_vars /\ Fairness

\* ================================================================== claims
Range(s) == {s[i] : i \in DOMAIN s}
Terminal == {"completed", "error", "failed"}
PosIn(s, x) == CHOOSE i \in DOMAIN s : s[i] = x

\* C1: in every reachable state the number of jobs dequeued by processQueue whose
\* processVideo call has not returned is at most MAX_CONCURRENT_TASKS.
C1_AtMostMaxInFlight == Cardinality(InFlight) <= MAX_CONCURRENT_TASKS
\* one job is mid-pipeline while another waits in taskQueue
C1_Witness == Cardinality(InFlight) = 1 /\ Len(taskQueue) >= 1

\* C2: if A was added to the queue before B and B has been dequeued, then A was
\* dequeued before B and A's row holds a terminal status.
C2_FifoTerminalBeforeDispatch ==
    \A i, j \in DOMAIN enqueued :
        (i < j /\ enqueued[j] \in Range(dispatched)) =>
            /\ enqueued[i] \in Range(dispatched)
            /\ PosIn(dispatched, enqueued[i]) < PosIn(dispatched, enqueued[j])
            /\ StatusOf(tasks, enqueued[i]) \in Terminal

\* C3: the step in which /upload returns { taskId } leaves a row for taskId with
\* status 'processing' and a null downloadLink, and that taskId was never
\* returned before.
C3_ReturnedTaskIsProcessing ==
    [][\A id \in Ids :
          returned'[id] > returned[id] =>
              /\ returned[id] = 0
              /\ RowsOf(tasks', id) = {Row(id, "processing", NULL)}]_vars
\* two uploads have been answered with their task ids
C3_Witness == \A id \in Ids : returned[id] = 1

\* C4: a task whose analysis gave a colour and whose transform ended without
\* error has status 'completed' and downloadLink /download/<taskId>.webm, its
\* output exists, and its upload and frame directory do not.
C4_SuccessIsCompletedAndClean ==
    \A id \in Ids :
        outcome[id] = "success" =>
            /\ RowsOf(tasks, id) = {Row(id, "completed", <<"download", id, "webm">>)}
            /\ outputPathOf(id) \in files
            /\ uploadPath(id) \notin files
            /\ frameDirectoryOf(id) \notin files
\* a pipeline has succeeded and its worker has released the slot
C4_Witness == \E id \in finished : outcome[id] = "success"

\* C5: a task whose pipeline failed, in analysis or in encoding, has status
\* 'error' and a null downloadLink once processVideo has returned.
C5_FailureIsError ==
    \A id \in Ids :
        outcome[id] \in {"analysisFailed", "encodeFailed"} =>
            RowsOf(tasks, id) = {Row(id, "error", NULL)}

\* C6: once the worker has finished a job and released its slot, the task's
\* upload and frame directory do not exist.
C6_FinishedIsClean ==
    \A id \in finished :
        uploadPath(id) \notin files /\ frameDirectoryOf(id) \notin files

\* C7: the table holds at most one row per taskId, and a row's downloadLink is
\* non-null exactly when its status is 'completed'.
C7_OneRowAndLinkIffCompleted ==
    /\ \A r1, r2 \in tasks : r1.taskId = r2.taskId => r1 = r2
    /\ \A r \in tasks : (r.downloadLink # NULL) <=> (r.status = "completed")
\* a completed row next to a row failed by the scan after a kill
C7_Witness ==
    /\ \E r \in tasks : r.status = "completed"
    /\ \E r \in tasks : r.status = "failed"

\* C8: no step changes the status of a row that is 'completed', 'error' or
\* 'failed'; a status changes only from 'processing' to one of these, and no row
\* is removed.
C8_TerminalIsTerminal ==
    [][\A r \in tasks :
          \E r2 \in tasks' :
              /\ r2.taskId = r.taskId
              /\ \/ r2.status = r.status
                 \/ r.status = "processing" /\ r2.status \in Terminal]_vars
\* a scan has finished after a kill with a completed row in the table
C8_Witness ==
    /\ crashes >= 1 /\ scanPc = "done"
    /\ orphans # {}
    /\ \E r \in tasks : r.status = "completed"

\* C9: after a kill and restart, once handleInterruptedTasks has finished, every
\* row that was 'processing' when the process started is 'failed' and its upload
\* and frame directory do not exist.
C9_OrphansFailedAndClean ==
    (crashes >= 1 /\ scanPc = "done") =>
        \A id \in orphans :
            /\ StatusOf(tasks, id) = "failed"
            /\ uploadPath(id) \notin files
            /\ frameDirectoryOf(id) \notin files
\* the scan has finished for a job killed mid-pipeline and one killed in the queue
C9_Witness == crashes >= 1 /\ scanPc = "done" /\ Cardinality(orphans) >= 2

\* C10: from the end of one scan, through a restart and a second scan with no
\* submission in between, the table and the files stay as the first scan left
\* them, and no row is 'processing'.
C10_RecoveryIdempotent ==
    scanRuns >= 1 =>
        /\ tasks = snap.tasks
        /\ files = snap.files
        /\ \A r \in tasks : r.status # "processing"
\* a second scan in a row has finished, the first having failed a row
C10_Witness ==
    /\ scanRuns = 2 /\ scanPc = "done"
    /\ \E r \in tasks : r.status = "failed"

\* C11: an /upload request without the video field is answered 400 and one
\* larger than MAX_SIZE 413, and that step leaves the table, the files, the
\* queue, the counter and the pipeline as they were; a request of exactly
\* MAX_SIZE bytes is accepted (a task id is generated and its write started).
StoreUnchanged ==
    UNCHANGED <<tasks, files, taskQueue, currentProcessing, pv, writing, nextId,
                enqueued, dispatched>>
QueuedIds == {taskQueue[i].taskId : i \in DOMAIN taskQueue}
C12_OrphansNeverRequeued ==
    \A id \in orphans :
        /\ id \notin QueuedIds
        /\ id \notin Range(enqueued) \cup Range(dispatched)
        /\ pv[id].pc = "idle"
        /\ StatusOf(tasks, id) \in {"processing", "failed"}
\* the scan has failed an orphan and the new run has dispatched a new job
C12_Witness ==
    /\ orphans # {} /\ scanPc = "done"
    /\ \A id \in orphans : StatusOf(tasks, id) = "failed"
    /\ dispatched # <<>>

\* C13: handleInterruptedTasks runs once per process start: until it has ended
\* no upload is being written, queued or dispatched and no status query is
\* answered; once ended it does not run again in this process; and no status
\* query is answered 'processing' for a task orphaned by the previous run.
NoTrafficDuringScan ==
    scanPc # "done" =>
        /\ writing = {} /\ taskQueue = <<>> /\ enqueued = <<>>
        /\ InFlight = {}
        /\ statusReply = NoReply /\ ~lastReq.present
NoOrphanSeenProcessing ==
    (statusReply # NoReply /\ statusReply.taskId \in orphans) =>
        statusReply.status # "processing"
C13_ScanBeforeTraffic ==
    /\ [](NoTrafficDuringScan /\ NoOrphanSeenProcessing)
    /\ [][scanPc = "done" => (scanPc' = "done" \/ crashes' = crashes + 1)]_vars
\* a status query for an orphaned task is answered in the new run
C13_Witness ==
    /\ statusReply # NoReply /\ statusReply.taskId \in orphans
    /\ statusReply.status = "failed"

\* C14: when cleanupFiles throws in the worker's cleanup of a job, then once the
\* listener and every ready continuation have run the task's row holds its
\* terminal status: 'completed' after a transform that ended, 'error' after one
\* that failed.
C14_CleanupFailureNotEscalated ==
    \A id \in Ids :
        (EventLoopIdle /\ id \in Range(dispatched)) =>
            /\ outcome[id] = "endCleanupThrew" => StatusOf(tasks, id) = "completed"
            /\ outcome[id] = "errorCleanupThrew" => StatusOf(tasks, id) = "error"

\* C15: once handleInterruptedTasks has ended, every row that was 'processing'
\* when the process started is 'failed', also when cleanupFiles threw for one
\* of them.
C15_ScanFailsEveryOrphan ==
    (crashes >= 1 /\ scanPc = "done") =>
        \A id \in orphans : StatusOf(tasks, id) = "failed"

\* C16: in a run where the process is not killed and every pipeline invocation
\* returns, every job in the Work Queue is eventually dequeued and dispatched,
\* and whenever the queue is empty and no dequeued job is unfinished the
\* in-flight counter is 0.
C16_QueueDrains ==
    /\ \A id \in Ids : (id \in QueuedIds) ~> (id \in Range(dispatched))
    /\ []((taskQueue = <<>> /\ (\A id \in Ids : pv[id].pc = "idle"))
              => currentProcessing = 0)
C16_Witness ==
    /\ crashes = 0
    /\ finished = Ids /\ Len(dispatched) = MaxTasks
    /\ taskQueue = <<>> /\ currentProcessing = 0

Count(s, x) == Cardinality({i \in DOMAIN s : s[i] = x})
\* jobs of this run that processQueue's finally block is done with
Done == {id \in Range(dispatched) : pv[id].pc = "idle"}
\* C17: within a run, every enqueued job is waiting in the queue or was dequeued,
\* exactly once in all (so no two pipeline runs of one task id exist), the
\* Worker Pool never writes its row twice, and once its pipeline has returned
\* the Worker Pool has written its row exactly once.
C17_SingleOwnership ==
    \A id \in Range(enqueued) :
        /\ Count(enqueued, id) = 1
        /\ Count(dispatched, id) + Cardinality({i \in DOMAIN taskQueue : taskQueue[i].taskId = id}) = 1
        /\ workerWrites[id] <= 1
        /\ id \in InFlight \cup QueuedIds => workerWrites[id] = 0
        /\ (pv[id].pc = "returned" \/ id \in Done) => workerWrites[id] = 1

\* tasks submitted in this run: accepted uploads being written, and enqueued jobs
ThisRun == writing \cup Range(enqueued)
FilesOf(id) == {uploadPath(id), outputPathOf(id), frameDirectoryOf(id)}
\* C18: a task submitted in the current run never has a row 'failed', and a step
\* of the scan changes no row and deletes no file of a task that was not
\* 'processing' when the process started; no current-run task is one of those.
C18_ScanOnlyTouchesOrphans ==
    /\ [](\A id \in ThisRun : id \notin orphans /\ \A r \in RowsOf(tasks, id) : r.status # "failed")
    /\ [][(scanPc = "awaiting" /\ crashes' = crashes) =>
             \A id \in Ids \ orphans :
                 /\ RowsOf(tasks', id) = RowsOf(tasks, id)
                 /\ files' \cap FilesOf(id) = files \cap FilesOf(id)]_vars
C18_Witness ==
    /\ scanPc = "done"
    /\ \E o \in orphans : StatusOf(tasks, o) = "failed" /\ files \cap FilesOf(o) \subseteq {outputPathOf(o)}
    /\ \E id \in Range(enqueued) : StatusOf(tasks, id) = "completed" /\ outputPathOf(id) \in files

\* C19: whenever control is back at the event loop, currentProcessing is the
\* number of jobs dequeued whose pipeline has not returned, it is within
\* 0..MAX_CONCURRENT_TASKS, and it is MAX_CONCURRENT_TASKS if a job is waiting.
C19_NoLostWakeup ==
    EventLoopIdle =>
        /\ currentProcessing = Cardinality(InFlight)
        /\ currentProcessing \in 0..MAX_CONCURRENT_TASKS
        /\ taskQueue # <<>> => currentProcessing = MAX_CONCURRENT_TASKS
C19_Witness ==
    /\ EventLoopIdle /\ crashes = 0
    /\ Len(dispatched) = 2 /\ dispatched[2] \in InFlight
    /\ currentProcessing = MAX_CONCURRENT_TASKS
    /\ dispatched[1] \in finished
    /\ PosIn(enqueued, dispatched[2]) = 2

\* C20: every job waiting in taskQueue or in flight has exactly one row, with
\* status 'processing' and no download link, and the row of a job of this run
\* leaves 'processing' only after the job was dequeued.
C20_QueuedRowIsProcessing ==
    /\ [](\A id \in QueuedIds \cup InFlight : RowsOf(tasks, id) = {Row(id, "processing", NULL)})
    /\ [][\A id \in Range(enqueued) :
             (/\ crashes' = crashes
              /\ Row(id, "processing", NULL) \in tasks
              /\ Row(id, "processing", NULL) \notin tasks')
             => (id \in Range(dispatched) /\ id \notin QueuedIds)]_vars
C20_Witness ==
    /\ taskQueue # <<>> /\ InFlight # {}
    /\ \E id \in InFlight : pv[id].pc = "transforming"
    /\ \A id \in QueuedIds : StatusOf(tasks, id) = "processing"
====
